---- MODULE Spec2Model ----
(***************************************************************************)
(* Model of scripts/logfire_query.py: one run of the command-line tool.    *)
(*                                                                         *)
(* Text.  A Python str is modelled as a sequence of units.  A unit is a    *)
(* one-character string, or a multi-character string standing for a        *)
(* literal piece of the program text that the program only ever handles    *)
(* as a whole (a banner, a piece of an SQL template, a command name).      *)
(* Everything the program inspects character by character (credential      *)
(* file lines, the limit argument, the project name, JSON strings) is      *)
(* written one character per unit.  A line break is always the unit "\n".  *)
(*                                                                         *)
(* Standard output is the sequence of completed lines; print(x) appends    *)
(* the lines of x followed by a line break.                                *)
(***************************************************************************)
EXTENDS Integers, Sequences, FiniteSets, TLC

VARIABLES
    entry,        \* "main": script run; "query_project": the function called directly
    argv,         \* sys.argv, argv[1] is the program name (Python's sys.argv[0])
    call_args,    \* actual arguments of the pending query_project call
    env_file,     \* the file .env_DIS in the working directory
    server,       \* what requests.get will produce when (if) it is called
    pc,           \* position of the process
    sql_query,    \* run_query's parameter
    show_full,    \* run_query's parameter
    api_key,      \* run_query's local
    requests,     \* the GET requests issued so far, in order
    out,          \* standard output: sequence of lines
    result,       \* what run_query returned
    termination,  \* "running", "returned", "SystemExit" or the uncaught exception type
    exit_status,  \* process exit status, meaningful once pc = "done"
    file_opens    \* number of open() calls on the credential file

vars == <<entry, argv, call_args, env_file, server, pc, sql_query, show_full,
          api_key, requests, out, result, termination, exit_status, file_opens>>

----------------------------------------------------------------------------
(* Bounds of the model *)

\* longest limit argument tried on the command line
MaxArgLen == 2
\* most lines in a generated credential file
MaxLines == 2
\* longest generated value text after LOGFIRE_READ_TOKEN=
MaxValueLen == 2
\* most columns in a generated well-formed response
MaxCols == 2
\* most values per column in a generated well-formed response
MaxVals == 2

----------------------------------------------------------------------------
(* Python str operations *)

\* all sequences over S of length at most n
SeqUpTo(S, n) == UNION {[1..k -> S] : k \in 0..n}

Whitespace == {" ", "\t", "\n", "\r"}

Digits == <<"0", "1", "2", "3", "4", "5", "6", "7", "8", "9">>

IsDigit(c) == \E i \in 1..10 : Digits[i] = c

DigitValue(c) == (CHOOSE i \in 1..10 : Digits[i] = c) - 1

\* str.startswith(prefix)
StartsWith(s, prefix) ==
    /\ Len(s) >= Len(prefix)
    /\ SubSeq(s, 1, Len(prefix)) = prefix

\* str.strip(): drop leading and trailing whitespace
RECURSIVE LStrip(_)
LStrip(s) ==
    IF s # <<>> /\ Head(s) \in Whitespace THEN LStrip(Tail(s)) ELSE s

RECURSIVE RStrip(_)
RStrip(s) ==
    IF s # <<>> /\ s[Len(s)] \in Whitespace
    THEN RStrip(SubSeq(s, 1, Len(s) - 1))
    ELSE s

Strip(s) == RStrip(LStrip(s))

\* s.split(sep, 1)[1]: what follows the first occurrence of the unit sep
\* (only used where sep occurs, as after startswith('...='))
AfterFirst(s, sep) ==
    LET i == CHOOSE i \in 1..Len(s) :
                 /\ s[i] = sep
                 /\ \A j \in 1..(i - 1) : s[j] # sep
    IN  SubSeq(s, i + 1, Len(s))

\* whether sub occurs in s as a contiguous run of units
Contains(s, sub) ==
    \E i \in 1..(Len(s) - Len(sub) + 1) : SubSeq(s, i, i + Len(sub) - 1) = sub

\* the lines of a text: its pieces between "\n" units
RECURSIVE SplitLines(_)
SplitLines(t) ==
    IF \A i \in 1..Len(t) : t[i] # "\n"
    THEN <<t>>
    ELSE LET i == CHOOSE i \in 1..Len(t) :
                      /\ t[i] = "\n"
                      /\ \A j \in 1..(i - 1) : t[j] # "\n"
         IN  <<SubSeq(t, 1, i - 1)>> \o SplitLines(SubSeq(t, i + 1, Len(t)))

\* print(t) on standard output o
PrintLn(o, t) == o \o SplitLines(t)

\* str(n) for a non-negative int
RECURSIVE DecNat(_)
DecNat(n) ==
    IF n < 10 THEN <<Digits[n + 1]>> ELSE DecNat(n \div 10) \o <<Digits[(n % 10) + 1]>>

\* str(n) / f"{n}" for an int
Dec(n) == IF n < 0 THEN <<"-">> \o DecNat(0 - n) ELSE DecNat(n)

\* int(s) for a str: surrounding whitespace is ignored, one optional sign,
\* then decimal digits, single underscores allowed between digits
IntBody(s) ==
    LET t == Strip(s)
    IN  IF t # <<>> /\ Head(t) \in {"+", "-"} THEN Tail(t) ELSE t

IntParses(s) ==
    LET b == IntBody(s)
    IN  /\ b # <<>>
        /\ \A i \in 1..Len(b) : IsDigit(b[i]) \/ b[i] = "_"
        /\ IsDigit(b[1]) /\ IsDigit(b[Len(b)])
        /\ \A i \in 1..(Len(b) - 1) : ~(b[i] = "_" /\ b[i + 1] = "_")

RECURSIVE DigitsValue(_)
DigitsValue(b) ==
    IF b = <<>> THEN 0
    ELSE IF b[Len(b)] = "_" THEN DigitsValue(SubSeq(b, 1, Len(b) - 1))
    ELSE 10 * DigitsValue(SubSeq(b, 1, Len(b) - 1)) + DigitValue(b[Len(b)])

IntValue(s) ==
    LET t == Strip(s)
        v == DigitsValue(IntBody(s))
    IN  IF t # <<>> /\ Head(t) = "-" THEN 0 - v ELSE v

----------------------------------------------------------------------------
(* Exceptions *)

Exc(type, msg) == [type |-> type, msg |-> msg]

NoException == Exc("", <<>>)

----------------------------------------------------------------------------
(* The credential file and load_api_key (lines 11-25) *)

\* 'LOGFIRE_READ_TOKEN=' (line 17)
KeyPrefix ==
    <<"L", "O", "G", "F", "I", "R", "E", "_", "R", "E", "A", "D", "_",
      "T", "O", "K", "E", "N", "=">>

\* a file that open() can read, with its lines as iteration yields them
File(lines) == [state |-> "ok", lines |-> lines]

\* no such file: open() raises FileNotFoundError
AbsentFile == [state |-> "absent", lines |-> <<>>]

\* a file the process may not read: open() raises PermissionError
UnreadableFile == [state |-> "unreadable", lines |-> <<>>]

\* the exception of open(env_file, 'r') (line 15), NoException if it opens
OpenError(f) ==
    CASE f.state = "absent" ->
            Exc("FileNotFoundError",
                <<"[Errno 2] No such file or directory: '", ".env_DIS", "'">>)
      [] f.state = "unreadable" ->
            Exc("PermissionError",
                <<"[Errno 13] Permission denied: '", ".env_DIS", "'">>)
      [] OTHER -> NoException

\* ScanLines without the break of line 19: the last matching line wins
ScanLines_LastMatch(lines) ==
    LET Matches == {i \in 1..Len(lines) : StartsWith(lines[i], KeyPrefix)}
    IN  IF Matches = {}
        THEN [found |-> FALSE, api_key |-> <<>>]
        ELSE LET i == CHOOSE i \in Matches : \A j \in Matches : i >= j
             IN  [found |-> TRUE, api_key |-> Strip(AfterFirst(lines[i], "="))]

\* lines 16-19: the loop over the lines, stopping at the first match.
\* found = FALSE stands for api_key = None.
ScanLines(lines) ==
    LET Matches == {i \in 1..Len(lines) : StartsWith(lines[i], KeyPrefix)}
    IN  IF Matches = {}
        THEN [found |-> FALSE, api_key |-> <<>>]
        ELSE LET i == CHOOSE i \in Matches : \A j \in Matches : i <= j
             IN  [found |-> TRUE, api_key |-> Strip(AfterFirst(lines[i], "="))]

\* NotApiKey testing api_key == "" only, so that None passes
NotApiKey_EmptyStringOnly(scan) == scan.found /\ scan.api_key = <<>>

\* line 21: not api_key (None or the empty string)
NotApiKey(scan) == ~scan.found \/ scan.api_key = <<>>

\* line 22
MissingTokenMessage == <<"Error: Could not find Logfire read token in .env_DIS">>

\* load_api_key(): kind is "raise" (open failed, exc propagates), "exit"
\* (message printed, exit(1)) or "return" (api_key returned)
load_api_key(f) ==
    IF OpenError(f) # NoException
    THEN [kind |-> "raise", exc |-> OpenError(f), api_key |-> <<>>, printed |-> <<>>]
    ELSE LET scan == ScanLines(f.lines)
         IN  IF NotApiKey(scan)
             THEN [kind |-> "exit", exc |-> NoException, api_key |-> <<>>,
                   printed |-> <<MissingTokenMessage>>]
             ELSE [kind |-> "return", exc |-> NoException,
                   api_key |-> scan.api_key, printed |-> <<>>]

----------------------------------------------------------------------------
(* Decoded JSON values, as response.json() returns them *)

JStr(s) == [t |-> "str", s |-> s]
JInt(n) == [t |-> "int", n |-> n]
JNull == [t |-> "null"]
JBool(b) == [t |-> "bool", b |-> b]
JList(xs) == [t |-> "list", xs |-> xs]
\* a dict: its items in order, each [k |-> key text, v |-> value], keys distinct
JDict(kv) == [t |-> "dict", kv |-> kv]
Item(k, v) == [k |-> k, v |-> v]

ColumnsKey == <<"c", "o", "l", "u", "m", "n", "s">>
NameKey == <<"n", "a", "m", "e">>
ValuesKey == <<"v", "a", "l", "u", "e", "s">>

\* type(v).__name__
TypeName(v) ==
    CASE v.t = "str" -> "str"
      [] v.t = "int" -> "int"
      [] v.t = "null" -> "NoneType"
      [] v.t = "bool" -> "bool"
      [] v.t = "list" -> "list"
      [] v.t = "dict" -> "dict"

\* the outcome of evaluating an expression: a value, or an exception
Value(v) == [exc |-> NoException, v |-> v, items |-> <<>>]
Items(xs) == [exc |-> NoException, v |-> JNull, items |-> xs]
Raise(type, msg) == [exc |-> Exc(type, msg), v |-> JNull, items |-> <<>>]

HasKey(d, key) == \E i \in 1..Len(d.kv) : d.kv[i].k = key

\* key in v, for a str key (line 58)
InOp(key, v) ==
    CASE v.t = "dict" -> Value(JBool(HasKey(v, key)))
      [] v.t = "list" -> Value(JBool(\E i \in 1..Len(v.xs) : v.xs[i] = JStr(key)))
      [] v.t = "str" -> Value(JBool(Contains(v.s, key)))
      [] OTHER ->
            Raise("TypeError", <<"argument of type '", TypeName(v), "' is not iterable">>)

\* v[key], for a str key (lines 59-61)
Subscript(v, key) ==
    CASE v.t = "dict" ->
            IF HasKey(v, key)
            THEN Value(v.kv[CHOOSE i \in 1..Len(v.kv) : v.kv[i].k = key].v)
            ELSE Raise("KeyError", <<"'">> \o key \o <<"'">>)
      [] v.t = "list" ->
            Raise("TypeError", <<"list indices must be integers or slices, not str">>)
      [] v.t = "str" ->
            Raise("TypeError", <<"string indices must be integers, not 'str'">>)
      [] OTHER ->
            Raise("TypeError", <<"'", TypeName(v), "' object is not subscriptable">>)

\* what "for x in v" iterates over (lines 59, 61)
Iterate(v) ==
    CASE v.t = "list" -> Items(v.xs)
      [] v.t = "dict" -> Items([i \in 1..Len(v.kv) |-> JStr(v.kv[i].k)])
      [] v.t = "str" -> Items([i \in 1..Len(v.s) |-> JStr(<<v.s[i]>>)])
      [] OTHER -> Raise("TypeError", <<"'", TypeName(v), "' object is not iterable">>)

\* the quote repr(s) puts around a str: " only if s holds ' and no "
ReprQuote(s) ==
    IF (\E i \in 1..Len(s) : s[i] = "'") /\ (\A i \in 1..Len(s) : s[i] # "\"")
    THEN "\"" ELSE "'"

\* repr's escape of one character inside quotes q
ReprEscape(c, q) ==
    CASE c = "\\" -> <<"\\", "\\">>
      [] c = "\n" -> <<"\\", "n">>
      [] c = "\r" -> <<"\\", "r">>
      [] c = "\t" -> <<"\\", "t">>
      [] c = q -> <<"\\", c>>
      [] OTHER -> <<c>>

RECURSIVE ReprChars(_, _)
ReprChars(s, q) ==
    IF s = <<>> THEN <<>> ELSE ReprEscape(Head(s), q) \o ReprChars(Tail(s), q)

\* repr(s) for a str
ReprStr(s) == <<ReprQuote(s)>> \o ReprChars(s, ReprQuote(s)) \o <<ReprQuote(s)>>

\* repr(v)
RECURSIVE Repr(_)
Repr(v) ==
    CASE v.t = "str" -> ReprStr(v.s)
      [] v.t = "int" -> Dec(v.n)
      [] v.t = "null" -> <<"None">>
      [] v.t = "bool" -> IF v.b THEN <<"True">> ELSE <<"False">>
      [] v.t = "list" ->
            LET RECURSIVE Join(_)
                Join(i) == IF i > Len(v.xs) THEN <<>>
                           ELSE (IF i > 1 THEN <<",", " ">> ELSE <<>>)
                                \o Repr(v.xs[i]) \o Join(i + 1)
            IN  <<"[">> \o Join(1) \o <<"]">>
      [] v.t = "dict" ->
            LET RECURSIVE Join(_)
                Join(i) == IF i > Len(v.kv) THEN <<>>
                           ELSE (IF i > 1 THEN <<",", " ">> ELSE <<>>)
                                \o ReprStr(v.kv[i].k) \o <<":", " ">>
                                \o Repr(v.kv[i].v) \o Join(i + 1)
            IN  <<"{">> \o Join(1) \o <<"}">>

\* f"{v}": str(v)
Format(v) == IF v.t = "str" THEN v.s ELSE Repr(v)

----------------------------------------------------------------------------
(* json.dumps(data, indent=2) (line 53) *)

\* json's escape of one character of a str
JsonEscape(c) ==
    CASE c = "\"" -> <<"\\", "\"">>
      [] c = "\\" -> <<"\\", "\\">>
      [] c = "\n" -> <<"\\", "n">>
      [] c = "\r" -> <<"\\", "r">>
      [] c = "\t" -> <<"\\", "t">>
      [] OTHER -> <<c>>

RECURSIVE JsonChars(_)
JsonChars(s) == IF s = <<>> THEN <<>> ELSE JsonEscape(Head(s)) \o JsonChars(Tail(s))

JsonStr(s) == <<"\"">> \o JsonChars(s) \o <<"\"">>

\* the indentation of nesting level n: n times two spaces
Indent(n) == [i \in 1..(2 * n) |-> " "]

RECURSIVE Dumps(_, _)
Dumps(v, level) ==
    CASE v.t = "str" -> JsonStr(v.s)
      [] v.t = "int" -> Dec(v.n)
      [] v.t = "null" -> <<"null">>
      [] v.t = "bool" -> IF v.b THEN <<"true">> ELSE <<"false">>
      [] v.t = "list" ->
            LET RECURSIVE Join(_)
                Join(i) == IF i > Len(v.xs) THEN <<>>
                           ELSE (IF i > 1 THEN <<",">> ELSE <<>>)
                                \o <<"\n">> \o Indent(level + 1)
                                \o Dumps(v.xs[i], level + 1) \o Join(i + 1)
            IN  IF v.xs = <<>> THEN <<"[]">>
                ELSE <<"[">> \o Join(1) \o <<"\n">> \o Indent(level) \o <<"]">>
      [] v.t = "dict" ->
            LET RECURSIVE Join(_)
                Join(i) == IF i > Len(v.kv) THEN <<>>
                           ELSE (IF i > 1 THEN <<",">> ELSE <<>>)
                                \o <<"\n">> \o Indent(level + 1)
                                \o JsonStr(v.kv[i].k) \o <<":", " ">>
                                \o Dumps(v.kv[i].v, level + 1) \o Join(i + 1)
            IN  IF v.kv = <<>> THEN <<"{}">>
                ELSE <<"{">> \o Join(1) \o <<"\n">> \o Indent(level) \o <<"}">>

----------------------------------------------------------------------------
(* The table rendering of run_query (lines 56-63) *)

\* "-" * 80 (lines 57, 63)
RuleWidth == 80
Rule == [i \in 1..RuleWidth |-> "-"]

ResultsHeader == <<"Results:">>

\* what a piece of code printed (the texts given to print, in order) and the
\* exception that ended it, NoException if it ran to its end
Ran(prints) == [prints |-> prints, exc |-> NoException]
Failed(prints, exc) == [prints |-> prints, exc |-> exc]

\* line 60: the header print of a column whose name is nm
ColumnHeader(nm) == <<"\n">> \o Format(nm) \o <<":">>

\* ValueLine without the indentation
ValueLine_Unindented(value) == Format(value)

\* line 62: the print of one value
ValueLine(value) == <<"  ">> \o Format(value)

\* lines 60-62: one turn of the loop over the columns
RenderColumn(col) ==
    LET nm == Subscript(col, NameKey)
        vs == Subscript(col, ValuesKey)
        it == Iterate(vs.v)
    IN  IF nm.exc # NoException THEN Failed(<<>>, nm.exc)
        ELSE IF vs.exc # NoException THEN Failed(<<ColumnHeader(nm.v)>>, vs.exc)
        ELSE IF it.exc # NoException THEN Failed(<<ColumnHeader(nm.v)>>, it.exc)
        ELSE Ran(<<ColumnHeader(nm.v)>>
                 \o [i \in 1..Len(it.items) |-> ValueLine(it.items[i])])

\* lines 59-62: the loop over the columns, ended by the first exception
RECURSIVE RenderColumns(_)
RenderColumns(cols) ==
    IF cols = <<>> THEN Ran(<<>>)
    ELSE LET first == RenderColumn(Head(cols))
             rest == RenderColumns(Tail(cols))
         IN  IF first.exc # NoException THEN first
             ELSE [prints |-> first.prints \o rest.prints, exc |-> rest.exc]

\* lines 58-62: if "columns" in data: for col in data["columns"]: ...
RenderBody(data) ==
    LET has == InOp(ColumnsKey, data)
        cols == Subscript(data, ColumnsKey)
        it == Iterate(cols.v)
    IN  IF has.exc # NoException THEN Failed(<<>>, has.exc)
        ELSE IF ~has.v.b THEN Ran(<<>>)
        ELSE IF cols.exc # NoException THEN Failed(<<>>, cols.exc)
        ELSE IF it.exc # NoException THEN Failed(<<>>, it.exc)
        ELSE RenderColumns(it.items)

\* lines 56-63
RenderTable(data) ==
    LET body == RenderBody(data)
    IN  IF body.exc # NoException
        THEN Failed(<<ResultsHeader, Rule>> \o body.prints, body.exc)
        ELSE Ran(<<ResultsHeader, Rule>> \o body.prints \o <<Rule>>)

\* lines 52-63
Render(data, full) ==
    IF full THEN Ran(<<Dumps(data, 0)>>) ELSE RenderTable(data)

----------------------------------------------------------------------------
(* What requests.get produces, and run_query's handling of it (46-72) *)

\* requests.get raises e
GetRaises(type, msg) ==
    [kind |-> "raise", exc |-> Exc(type, msg), status_code |-> 0, text |-> <<>>,
     json_ok |-> FALSE, data |-> JNull]

\* a response whose body is a JSON text that response.json() decodes to data
JsonResponse(status, data) ==
    [kind |-> "response", exc |-> NoException, status_code |-> status,
     text |-> Dumps(data, 0), json_ok |-> TRUE, data |-> data]

\* a response whose body response.json() cannot decode
TextResponse(status, text) ==
    [kind |-> "response", exc |-> NoException, status_code |-> status,
     text |-> text, json_ok |-> FALSE, data |-> JNull]

\* response.json() on an undecodable body
JSONDecodeError ==
    Exc("JSONDecodeError", <<"Expecting value: line 1 column 1 (char 0)">>)

\* line 49
StatusOK == 200

ReturnNone == [kind |-> "None", data |-> JNull]
ReturnData(d) == [kind |-> "data", data |-> d]
NotReturned == [kind |-> "unset", data |-> JNull]

\* lines 70-72: except Exception as e
Caught(prints, e) ==
    [prints |-> prints \o <<<<"Error: ">> \o e.msg>>, ret |-> ReturnNone]

\* HandleGet taking every 2xx status for success
HandleGet_Any2xx(srv, full) ==
    IF srv.kind = "raise" THEN Caught(<<>>, srv.exc)
    ELSE IF srv.status_code >= StatusOK /\ srv.status_code < 300
    THEN IF ~srv.json_ok THEN Caught(<<>>, JSONDecodeError)
         ELSE LET r == Render(srv.data, full)
              IN  IF r.exc # NoException THEN Caught(r.prints, r.exc)
                  ELSE [prints |-> r.prints, ret |-> ReturnData(srv.data)]
    ELSE [prints |-> <<<<"Error: Status ">> \o Dec(srv.status_code), srv.text>>,
          ret |-> ReturnNone]

\* lines 46-72: the try statement, given what requests.get produced
HandleGet(srv, full) ==
    IF srv.kind = "raise" THEN Caught(<<>>, srv.exc)
    ELSE IF srv.status_code = StatusOK
    THEN IF ~srv.json_ok THEN Caught(<<>>, JSONDecodeError)
         ELSE LET r == Render(srv.data, full)
              IN  IF r.exc # NoException THEN Caught(r.prints, r.exc)
                  ELSE [prints |-> r.prints, ret |-> ReturnData(srv.data)]
    ELSE [prints |-> <<<<"Error: Status ">> \o Dec(srv.status_code), srv.text>>,
          ret |-> ReturnNone]

\* print each text of a sequence in turn
RECURSIVE PrintAll(_, _)
PrintAll(o, texts) ==
    IF texts = <<>> THEN o ELSE PrintAll(PrintLn(o, Head(texts)), Tail(texts))

----------------------------------------------------------------------------
(* The texts of the program *)

\* a sequence of lines as one text, "\n" between them
RECURSIVE JoinLines(_)
JoinLines(ls) ==
    IF Len(ls) <= 1 THEN (IF ls = <<>> THEN <<>> ELSE ls[1])
    ELSE ls[1] \o <<"\n">> \o JoinLines(Tail(ls))

\* lines 100-116: the lines of the usage text
UsageLines ==
    << <<>>,
       <<"Logfire Query Tool">>,
       <<"==================">>,
       <<>>,
       <<"Usage:">>,
       <<"  python3 logfire_query.py [command] [options]">>,
       <<>>,
       <<"Commands:">>,
       <<"  list-projects              List all Logfire projects">>,
       <<"  query [project] [limit]    Query logs from project (default: vibemachine, 5)">>,
       <<"  sql \"SELECT ...\"           Run custom SQL query">>,
       <<>>,
       <<"Examples:">>,
       <<"  python3 logfire_query.py list-projects">>,
       <<"  python3 logfire_query.py query vibemachine 10">>,
       <<"  python3 logfire_query.py sql \"SELECT * FROM records LIMIT 5\"">>,
       <<"        ">> >>

UsageText == JoinLines(UsageLines)

\* lines 131-132
SqlRequiredLines ==
    << <<"Error: SQL query required">>,
       <<"Example: python3 logfire_query.py sql \"SELECT * FROM records LIMIT 5\"">> >>

\* lines 138-139
UnknownCommandLines(command) ==
    << <<"Unknown command: ">> \o command,
       <<"Run without arguments to see usage">> >>

\* the command names main compares with (lines 121, 124, 129)
CmdListProjects == <<"list-projects">>
CmdQuery == <<"query">>
CmdSql == <<"sql">>

\* the default project (lines 81 and 125), one character per unit
Vibemachine == <<"v", "i", "b", "e", "m", "a", "c", "h", "i", "n", "e">>

\* line 81: query_project's defaults
DefaultProjectName == Vibemachine
DefaultLimit == 5

\* lines 125-126: main's defaults
MainDefaultProject == Vibemachine
MainDefaultLimit == 5

\* line 77
ListProjectsSql ==
    <<"SELECT DISTINCT service_name FROM records ORDER BY service_name">>

\* QueryProjectSql with the two placeholders exchanged
QueryProjectSql_Exchanged(project_name, limit) ==
    <<"\n",
      "        SELECT start_timestamp, level, span_name, message, attributes", "\n",
      "        FROM records", "\n",
      "        WHERE ", "service_name = '">> \o Dec(limit) \o <<"'", "\n",
      "        ORDER BY start_timestamp DESC", "\n",
      "        ", "LIMIT ">> \o project_name \o <<"\n",
      "    ">>

\* lines 83-89: the f-string of query_project
QueryProjectSql(project_name, limit) ==
    <<"\n",
      "        SELECT start_timestamp, level, span_name, message, attributes", "\n",
      "        FROM records", "\n",
      "        WHERE ", "service_name = '">> \o project_name \o <<"'", "\n",
      "        ORDER BY start_timestamp DESC", "\n",
      "        ", "LIMIT ">> \o Dec(limit) \o <<"\n",
      "    ">>

\* line 76
ListProjectsBanner == <<"=== Listing all Logfire projects ===", "\n">>

\* line 82
QueryProjectBanner(project_name, limit) ==
    <<"=== Last ">> \o Dec(limit) \o <<" logs from '">> \o project_name
        \o <<"' ===", "\n">>

\* line 94
CustomQueryBanner == <<"=== Custom Query ===", "\n">>

\* lines 31-32
QueryEndpoint == <<"https://logfire-api.pydantic.dev", "/v1/query">>

\* line 47
RequestTimeout == 30

\* lines 34-41 and 47: the GET request run_query issues
GetRequest(key, sql) ==
    [url |-> QueryEndpoint,
     params |-> [sql |-> sql],
     headers |-> [Authorization |-> <<"Bearer ">> \o key,
                  ContentType |-> <<"application/json">>],
     timeout |-> RequestTimeout]

\* lines 43-44
QueryingLines(sql) ==
    << <<"Querying: ">> \o QueryEndpoint, <<"SQL: ">> \o sql \o <<"\n">> >>

----------------------------------------------------------------------------
(* Arguments *)

\* sys.argv[i]
Argv(i) == argv[i + 1]

\* an optional actual argument: omitted, or given
Omitted == <<>>
Given(x) == <<x>>

NoCall == [project |-> Omitted, limit |-> Omitted]

\* ParseLimit falling back to the default when int() fails
ParseLimit_DefaultsOnError(args) ==
    IF Len(args) > 3 /\ IntParses(args[4])
    THEN [ok |-> TRUE, limit |-> IntValue(args[4])]
    ELSE [ok |-> TRUE, limit |-> 5]

\* line 126: int(sys.argv[3]) if len(sys.argv) > 3 else 5
\* ok = FALSE: int() raised ValueError
ParseLimit(args) ==
    IF Len(args) > 3
    THEN IF IntParses(args[4])
         THEN [ok |-> TRUE, limit |-> IntValue(args[4])]
         ELSE [ok |-> FALSE, limit |-> 0]
    ELSE [ok |-> TRUE, limit |-> MainDefaultLimit]

\* line 125: sys.argv[2] if len(sys.argv) > 2 else "vibemachine"
ParseProject(args) == IF Len(args) > 2 THEN args[3] ELSE MainDefaultProject

\* line 81: the binding of query_project's parameters
BoundProjectName(args) ==
    IF args.project = Omitted THEN DefaultProjectName ELSE args.project[1]

BoundLimit(args) ==
    IF args.limit = Omitted THEN DefaultLimit ELSE args.limit[1]

----------------------------------------------------------------------------
(* How the process ends *)

\* the function called from the top returns: the interpreter exits with 0
Returns ==
    /\ pc' = "done"
    /\ termination' = "returned"
    /\ exit_status' = 0

\* an exception reaches the top: traceback on stderr, exit status 1
Uncaught(e) ==
    /\ pc' = "done"
    /\ termination' = e.type
    /\ exit_status' = 1

\* exit(1) (line 23): SystemExit reaches the top, exit status 1
SystemExit ==
    /\ pc' = "done"
    /\ termination' = "SystemExit"
    /\ exit_status' = 1

Continue(next) ==
    /\ pc' = next
    /\ UNCHANGED <<termination, exit_status>>

env == <<entry, argv, env_file, server>>

----------------------------------------------------------------------------
(* main (lines 98-139) *)

\* lines 99-117
MainUsage ==
    /\ pc = "main"
    /\ Len(argv) < 2
    /\ out' = PrintLn(out, UsageText)
    /\ Returns
    /\ UNCHANGED <<env, call_args, sql_query, show_full, api_key, requests,
                   result, file_opens>>

\* lines 121-122
MainListProjects ==
    /\ pc = "main"
    /\ Len(argv) >= 2
    /\ Argv(1) = CmdListProjects
    /\ Continue("list_projects")
    /\ UNCHANGED <<env, call_args, sql_query, show_full, api_key, requests,
                   out, result, file_opens>>

\* lines 124-127
MainQuery ==
    /\ pc = "main"
    /\ Len(argv) >= 2
    /\ Argv(1) = CmdQuery
    /\ IF ParseLimit(argv).ok
       THEN /\ call_args' = [project |-> Given(ParseProject(argv)),
                             limit |-> Given(ParseLimit(argv).limit)]
            /\ Continue("query_project")
       ELSE /\ Uncaught(Exc("ValueError",
                            <<"invalid literal for int() with base 10: ">>
                                \o ReprStr(Argv(3))))
            /\ UNCHANGED call_args
    /\ UNCHANGED <<env, sql_query, show_full, api_key, requests, out, result,
                   file_opens>>

\* MainSqlRequired without the return of line 133: it goes on to the query
MainSqlRequired_FallsThrough ==
    /\ pc = "main"
    /\ Len(argv) >= 2
    /\ argv[2] = <<"sql">>
    /\ Len(argv) < 3
    /\ out' = PrintAll(out, SqlRequiredLines)
    /\ sql_query' = <<>>
    /\ pc' = "custom_query"
    /\ UNCHANGED <<termination, exit_status>>
    /\ UNCHANGED <<env, call_args, show_full, api_key, requests, result, file_opens>>

\* lines 129-133
MainSqlRequired ==
    /\ pc = "main"
    /\ Len(argv) >= 2
    /\ Argv(1) = CmdSql
    /\ Len(argv) < 3
    /\ out' = PrintAll(out, SqlRequiredLines)
    /\ Returns
    /\ UNCHANGED <<env, call_args, sql_query, show_full, api_key, requests,
                   result, file_opens>>

\* lines 129, 134-135
MainSql ==
    /\ pc = "main"
    /\ Len(argv) >= 2
    /\ Argv(1) = CmdSql
    /\ Len(argv) >= 3
    /\ sql_query' = Argv(2)
    /\ Continue("custom_query")
    /\ UNCHANGED <<env, call_args, show_full, api_key, requests, out, result,
                   file_opens>>

\* lines 137-139
MainUnknown ==
    /\ pc = "main"
    /\ Len(argv) >= 2
    /\ Argv(1) \notin {CmdListProjects, CmdQuery, CmdSql}
    /\ out' = PrintAll(out, UnknownCommandLines(Argv(1)))
    /\ Returns
    /\ UNCHANGED <<env, call_args, sql_query, show_full, api_key, requests,
                   result, file_opens>>

----------------------------------------------------------------------------
(* list_projects, query_project, custom_query up to their call of run_query *)

\* lines 75-78
ListProjects ==
    /\ pc = "list_projects"
    /\ out' = PrintLn(out, ListProjectsBanner)
    /\ sql_query' = ListProjectsSql
    /\ show_full' = FALSE
    /\ Continue("run_query")
    /\ UNCHANGED <<env, call_args, api_key, requests, result, file_opens>>

\* lines 81-90
QueryProject ==
    /\ pc = "query_project"
    /\ out' = PrintLn(out, QueryProjectBanner(BoundProjectName(call_args),
                                              BoundLimit(call_args)))
    /\ sql_query' = QueryProjectSql(BoundProjectName(call_args), BoundLimit(call_args))
    /\ show_full' = FALSE
    /\ Continue("run_query")
    /\ UNCHANGED <<env, call_args, api_key, requests, result, file_opens>>

\* lines 93-95
CustomQuery ==
    /\ pc = "custom_query"
    /\ out' = PrintLn(out, CustomQueryBanner)
    /\ show_full' = TRUE
    /\ Continue("run_query")
    /\ UNCHANGED <<env, call_args, sql_query, api_key, requests, result, file_opens>>

----------------------------------------------------------------------------
(* run_query (lines 28-72) *)

\* lines 29-47: load the key, print the progress lines, issue the GET
RunQueryStart ==
    /\ pc = "run_query"
    /\ file_opens' = file_opens + 1
    /\ LET key == load_api_key(env_file)
       IN  CASE key.kind = "raise" ->
                    /\ Uncaught(key.exc)
                    /\ UNCHANGED <<api_key, requests, out>>
             [] key.kind = "exit" ->
                    /\ out' = PrintAll(out, key.printed)
                    /\ SystemExit
                    /\ UNCHANGED <<api_key, requests>>
             [] OTHER ->
                    /\ api_key' = key.api_key
                    /\ out' = PrintAll(out, QueryingLines(sql_query))
                    /\ requests' = Append(requests, GetRequest(key.api_key, sql_query))
                    /\ Continue("requests_get")
    /\ UNCHANGED <<env, call_args, sql_query, show_full, result>>

\* RunQueryFinish trying again after an exception of requests.get
RunQueryFinish_Retries ==
    /\ pc = "requests_get"
    /\ LET h == HandleGet(server, show_full)
       IN  /\ out' = PrintAll(out, h.prints)
           /\ result' = h.ret
    /\ IF server.kind = "raise"
       THEN /\ pc' = "run_query"
            /\ UNCHANGED <<termination, exit_status>>
       ELSE /\ pc' = "done"
            /\ termination' = "returned"
            /\ exit_status' = 0
    /\ UNCHANGED <<env, call_args, sql_query, show_full, api_key, requests,
                   file_opens>>

\* lines 47-72: requests.get is over; the rest of the try statement, the return
RunQueryFinish ==
    /\ pc = "requests_get"
    /\ LET h == HandleGet(server, show_full)
       IN  /\ out' = PrintAll(out, h.prints)
           /\ result' = h.ret
    /\ Returns
    /\ UNCHANGED <<env, call_args, sql_query, show_full, api_key, requests,
                   file_opens>>

----------------------------------------------------------------------------
(* The inputs of a run *)

Prog == <<"logfire_query.py">>

\* the characters limit arguments are made of
LimitChars == {"1", "0", "-", "a", " "}

LimitArgs == SeqUpTo(LimitChars, MaxArgLen)

\* project names: a plain one, and one holding a quote
Svc == <<"s", "v", "c">>
Quoted == <<"x", "'", "y">>
ProjectArgs == {Svc, Quoted, <<>>}

SqlArgs == {<<"SELECT 1">>, <<>>}

Argvs ==
    {<<Prog>>}
    \cup {<<Prog, c>> : c \in {CmdListProjects, CmdQuery, CmdSql, <<"bogus">>, <<>>}}
    \cup {<<Prog, CmdQuery, p>> : p \in ProjectArgs}
    \cup {<<Prog, CmdQuery, Svc, l>> : l \in LimitArgs}
    \cup {<<Prog, CmdSql, q>> : q \in SqlArgs}
    \cup {<<Prog, CmdListProjects, <<"extra">>>>, <<Prog, <<"bogus">>, <<"1">>>>}

\* the ways query_project is called directly
DirectCalls ==
    {[project |-> p, limit |-> l] :
        p \in {Omitted, Given(Svc), Given(Quoted)},
        l \in {Omitted, Given(10), Given(0 - 1)}}

\* credential file lines
KeyLine(value) == KeyPrefix \o value \o <<"\n">>
OtherLine == <<"O", "T", "H", "E", "R", "=", "1", "\n">>
IndentedKeyLine == <<" ">> \o KeyLine(<<"i">>)
NoEqualsLine == SubSeq(KeyPrefix, 1, Len(KeyPrefix) - 1) \o <<" ", "=", "n", "\n">>
UnterminatedKeyLine == KeyPrefix \o <<"u">>

\* the credential files of full runs
SomeFiles ==
    {AbsentFile, UnreadableFile,
     File(<<>>),
     File(<<OtherLine>>),
     File(<<IndentedKeyLine, NoEqualsLine>>),
     File(<<KeyLine(<<>>)>>),
     File(<<KeyLine(<<" ">>), KeyLine(<<"l">>)>>),
     File(<<KeyLine(<<"t", "o", "k">>)>>),
     File(<<OtherLine, KeyLine(<<" ", "a", "=", "b", " ">>), KeyLine(<<"z">>)>>)}

GoodFile == File(<<KeyLine(<<"t", "o", "k">>)>>)

\* a well-formed column
Column(name, values) ==
    JDict(<<Item(NameKey, name), Item(ValuesKey, JList(values))>>)

Table(columns) == JDict(<<Item(ColumnsKey, JList(columns))>>)

LevelTable ==
    Table(<<Column(JStr(<<"l", "v">>), <<JStr(<<"i">>), JStr(<<"e">>)>>)>>)

\* decoded bodies of other shapes
OddData ==
    {JDict(<<>>),
     JDict(<<Item(<<"r", "o", "w", "s">>, JList(<<>>))>>),
     Table(<<>>),
     Table(<<JDict(<<Item(ValuesKey, JList(<<JInt(1)>>))>>)>>),
     Table(<<JDict(<<Item(NameKey, JStr(<<"n">>))>>)>>),
     Table(<<Column(JStr(<<"n">>), <<JInt(1)>>), JInt(2)>>),
     Table(<<JDict(<<Item(NameKey, JNull), Item(ValuesKey, JStr(<<"a", "b">>))>>)>>),
     Table(<<JDict(<<Item(NameKey, JList(<<JInt(1), JStr(<<"a">>)>>)),
                     Item(ValuesKey, JInt(3))>>)>>),
     JDict(<<Item(ColumnsKey, JInt(5))>>),
     JDict(<<Item(ColumnsKey, JNull)>>),
     JDict(<<Item(ColumnsKey, JStr(<<"a">>))>>),
     JDict(<<Item(ColumnsKey, JDict(<<>>))>>),
     JList(<<>>),
     JList(<<JInt(1)>>),
     JList(<<JStr(ColumnsKey)>>),
     JStr(<<"o", "k">>),
     JStr(<<"x">> \o ColumnsKey),
     JInt(5),
     JBool(TRUE),
     JNull}

\* what the network and the server may produce, for full runs
SomeServers ==
    {GetRaises("ReadTimeout", <<"Read timed out. (read timeout=30)">>),
     GetRaises("ConnectionError", <<"Connection refused">>),
     JsonResponse(500, JStr(<<"server error">>)),
     TextResponse(500, <<"server error">>),
     TextResponse(404, <<>>),
     JsonResponse(201, JDict(<<>>)),
     TextResponse(204, <<"line 1", "\n", "line 2">>),
     TextResponse(StatusOK, <<"<html>">>),
     TextResponse(StatusOK, <<>>),
     JsonResponse(StatusOK, LevelTable)}
    \cup {JsonResponse(StatusOK, d) : d \in OddData}

\* generated credential files: up to MaxLines of a few lines, only the last
\* of which may lack its line break, and every short value on a key line
\* with or without a line before and after it
BaseLines ==
    {KeyLine(<<"k">>), KeyLine(<<>>), OtherLine, IndentedKeyLine,
     UnterminatedKeyLine}

ValueChars == {"a", " ", "="}

ContextLines == {<<>>, <<OtherLine>>, <<KeyLine(<<"k">>)>>, <<IndentedKeyLine>>}

IsTextFile(lines) ==
    \A i \in 1..(Len(lines) - 1) : lines[i][Len(lines[i])] = "\n"

GeneratedFiles ==
    {File(ls) : ls \in {x \in SeqUpTo(BaseLines, MaxLines) : IsTextFile(x)}}
    \cup {File(pre \o <<KeyLine(v)>> \o post) :
            pre \in ContextLines, post \in ContextLines,
            v \in SeqUpTo(ValueChars, MaxValueLen)}

\* generated well-formed tables
Scalars == {JStr(<<"a">>), JInt(7)}
ColumnNames == {JStr(<<"l", "v">>), JStr(<<"m">>)}

GeneratedColumns ==
    {Column(n, vs) : n \in ColumnNames, vs \in SeqUpTo(Scalars, MaxVals)}

GeneratedTables == {Table(cs) : cs \in SeqUpTo(GeneratedColumns, MaxCols)}

----------------------------------------------------------------------------
(* Specifications *)

\* the state of a fresh process, whatever its inputs
Fresh ==
    /\ sql_query = <<>>
    /\ show_full = FALSE
    /\ api_key = <<>>
    /\ requests = <<>>
    /\ out = <<>>
    /\ result = NotReturned
    /\ termination = "running"
    /\ exit_status = 0
    /\ file_opens = 0

\* a run of the script, or a direct call of query_project
Init ==
    /\ \/ /\ entry = "main"
          /\ argv \in Argvs
          /\ call_args = NoCall
          /\ pc = "main"
       \/ /\ entry = "query_project"
          /\ argv = <<Prog>>
          /\ call_args \in DirectCalls
          /\ pc = "query_project"
    /\ env_file \in SomeFiles
    /\ server \in SomeServers
    /\ Fresh

Next ==
    \/ MainUsage
    \/ MainListProjects
    \/ MainQuery
    \/ MainSqlRequired
    \/ MainSql
    \/ MainUnknown
    \/ ListProjects
    \/ QueryProject
    \/ CustomQuery
    \/ RunQueryStart
    \/ RunQueryFinish

Spec == Init /\ [][Next]_vars

\* list-projects runs over the generated credential files
InitCredential ==
    /\ entry = "main"
    /\ argv = <<Prog, CmdListProjects>>
    /\ call_args = NoCall
    /\ pc = "main"
    /\ env_file \in GeneratedFiles
    /\ server = JsonResponse(StatusOK, LevelTable)
    /\ Fresh

NextList ==
    \/ MainListProjects
    \/ ListProjects
    \/ RunQueryStart
    \/ RunQueryFinish

SpecCredential == InitCredential /\ [][NextList]_vars

\* list-projects runs over the generated well-formed tables
InitTable ==
    /\ entry = "main"
    /\ argv = <<Prog, CmdListProjects>>
    /\ call_args = NoCall
    /\ pc = "main"
    /\ env_file = GoodFile
    /\ server \in {JsonResponse(StatusOK, d) : d \in GeneratedTables}
    /\ Fresh

SpecTable == InitTable /\ [][NextList]_vars

----------------------------------------------------------------------------
(* Properties *)

Done == pc = "done"

\* some line of standard output begins with the unit u
SomeLineBegins(u) == \E i \in 1..Len(out) : out[i] # <<>> /\ out[i][1] = u

\* the last n lines of standard output
LastLines(n) == SubSeq(out, Len(out) - n + 1, Len(out))

\* the run called run_query and the credential loader has finished
Loaded == file_opens > 0

\* the run issued its GET and run_query is over
Answered == Done /\ Len(requests) = 1

\* the file opens and some line of it starts with the key
HasKeyLine(f) ==
    f.state = "ok" /\ \E i \in 1..Len(f.lines) : StartsWith(f.lines[i], KeyPrefix)

\* the first line of f that starts with the key, without the key
FirstKeyLineRest(f) ==
    LET i == CHOOSE i \in 1..Len(f.lines) :
                 /\ StartsWith(f.lines[i], KeyPrefix)
                 /\ \A j \in 1..(i - 1) : ~StartsWith(f.lines[j], KeyPrefix)
    IN  SubSeq(f.lines[i], Len(KeyPrefix) + 1, Len(f.lines[i]))

\* t without its leading and trailing blanks, tabs and line breaks
Trimmed(t) ==
    LET Inner == {i \in 1..Len(t) : t[i] \notin {" ", "\t", "\n", "\r"}}
    IN  IF Inner = {} THEN <<>>
        ELSE SubSeq(t, CHOOSE i \in Inner : \A j \in Inner : i <= j,
                       CHOOSE i \in Inner : \A j \in Inner : i >= j)

ExpectedKey(f) == Trimmed(FirstKeyLineRest(f))

\* the single request carries the secret as the bearer credential
SentWith(secret) ==
    /\ Len(requests) = 1
    /\ requests[1].headers.Authorization = <<"Bearer ">> \o secret

\* the loader printed its message and ended the process with status 1
ExitedMissingCredential ==
    /\ Done
    /\ termination = "SystemExit"
    /\ exit_status = 1
    /\ out # <<>>
    /\ out[Len(out)] = <<"Error: Could not find Logfire read token in .env_DIS">>
    /\ requests = <<>>
    /\ api_key = <<>>

\* C1: when the credential file cannot be opened, a run of the script that
\* reaches run_query ends as for a missing key: the curated message is printed, the
\* process ends by the loader's exit with a non-zero status, no request is
\* issued.  (Stated as claimed; the code lets open()'s exception through.)
C1_UnopenableFileIsMissingCredential ==
    (entry = "main" /\ Loaded /\ env_file.state # "ok") => ExitedMissingCredential

\* C2 as claimed: whenever some line starts with the key, the loader returns
\* the stripped text after the key of the first such line, whatever that
\* text is, and the process does not exit.
C2_EveryValueReturned ==
    (Loaded /\ HasKeyLine(env_file)) =>
        /\ termination \in {"running", "returned"}
        /\ api_key = ExpectedKey(env_file)
        /\ SentWith(ExpectedKey(env_file))

\* C2 amended: whenever some line starts with the key, the first such line
\* decides: if its text after the key, stripped, is not empty, the loader
\* returns exactly that text and the process goes on to send it; if it is
\* empty the loader prints its message and exits with status 1, whatever
\* the later lines hold.
C2_FirstKeyLineDecides ==
    (Loaded /\ HasKeyLine(env_file)) =>
        IF ExpectedKey(env_file) # <<>>
        THEN /\ termination \in {"running", "returned"}
             /\ api_key = ExpectedKey(env_file)
             /\ SentWith(ExpectedKey(env_file))
        ELSE ExitedMissingCredential

\* a file with an unrelated line, then the key with a padded value, then the
\* key again: the padded value of the first key line was sent, stripped
C2_Witness ==
    /\ Done
    /\ env_file.lines = <<OtherLine, KeyLine(<<" ", "a">>), KeyLine(<<"k">>)>>
    /\ api_key = <<"a">>
    /\ SentWith(<<"a">>)
    /\ termination = "returned"

\* C3: when the file opens and no line starts with the key, the loader
\* prints its message and ends the process with status 1; no request is
\* issued, no key is held, no 'Querying:' or 'SQL:' line is printed.
C3_NoKeyLineExits ==
    (Loaded /\ env_file.state = "ok" /\ ~HasKeyLine(env_file)) =>
        /\ ExitedMissingCredential
        /\ ~SomeLineBegins("Querying: ")
        /\ ~SomeLineBegins("SQL: ")

C3_Witness ==
    /\ Done
    /\ env_file = File(<<IndentedKeyLine, NoEqualsLine>>)
    /\ termination = "SystemExit"
    /\ exit_status = 1
    /\ requests = <<>>

\* the status line run_query prints for the statuses the servers answer with
StatusLine(code) ==
    CASE code = 500 -> <<"Error: Status ", "5", "0", "0">>
      [] code = 404 -> <<"Error: Status ", "4", "0", "4">>
      [] code = 201 -> <<"Error: Status ", "2", "0", "1">>
      [] code = 204 -> <<"Error: Status ", "2", "0", "4">>

\* C4: for every response whose status is not 200, run_query prints the
\* status code and then the raw body, prints no 'Results:' header and no
\* delimiter, returns None, and the process ends normally with status 0.
C4_Non200Reported ==
    (Answered /\ server.kind = "response" /\ server.status_code # 200) =>
        LET body == SplitLines(server.text)
        IN  /\ Len(out) > Len(body)
            /\ out[Len(out) - Len(body)] = StatusLine(server.status_code)
            /\ LastLines(Len(body)) = body
            /\ \A i \in 1..Len(out) : out[i] \notin {<<"Results:">>, Rule}
            /\ result = ReturnNone
            /\ termination = "returned"
            /\ exit_status = 0

C4_Witness ==
    /\ Answered
    /\ server.status_code = 500
    /\ server.text = <<"\"", "server error", "\"">>
    /\ LastLines(2) = << <<"Error: Status ", "5", "0", "0">>,
                         <<"\"", "server error", "\"">> >>
    /\ result = ReturnNone
    /\ exit_status = 0

\* C5: for every 200 response whose body decodes, whatever the shape of the
\* decoded value, the table rendering prints no 'Error:' line, prints the
\* 'Results:' header and both delimiter lines, and run_query returns the
\* decoded data.  (Stated as claimed; the code fails on unexpected shapes.)
C5_AnyShapeRendered ==
    (Answered /\ server.kind = "response" /\ server.status_code = 200
        /\ server.json_ok /\ ~show_full) =>
        /\ ~SomeLineBegins("Error: ")
        /\ \E i \in 1..Len(out) : out[i] = <<"Results:">>
        /\ Cardinality({i \in 1..Len(out) : out[i] = Rule}) = 2
        /\ result = ReturnData(server.data)

\* C6: a run issues at most one GET; when the GET raises, or a 200 body
\* cannot be decoded, run_query prints the exception's message, returns
\* None, and the process ends normally without another request.
C6_FailureCaughtNoRetry ==
    /\ Len(requests) <= 1
    /\ (Len(requests) = 1 /\ pc # "requests_get"
            /\ (server.kind = "raise"
                \/ (server.status_code = 200 /\ ~server.json_ok))) =>
        /\ Done
        /\ out[Len(out)] =
              <<"Error: ">> \o (IF server.kind = "raise" THEN server.exc.msg
                                ELSE <<"Expecting value: line 1 column 1 (char 0)">>)
        /\ result = ReturnNone
        /\ termination = "returned"
        /\ exit_status = 0

C6_Witness ==
    /\ Answered
    /\ server.kind = "raise"
    /\ server.exc.type = "ReadTimeout"
    /\ out[Len(out)] = <<"Error: ", "Read timed out. (read timeout=30)">>
    /\ result = ReturnNone

\* the runs of main that must not query
NoArguments == entry = "main" /\ Len(argv) < 2
SqlWithoutText == entry = "main" /\ Len(argv) = 2 /\ argv[2] = <<"sql">>
UnknownCommand ==
    entry = "main" /\ Len(argv) >= 2
        /\ argv[2] \notin {<<"list-projects">>, <<"query">>, <<"sql">>}

\* C7: started with no arguments, with sql and no text, or with an
\* unrecognized first argument, the run never opens the credential file and
\* issues no request, and it ends normally with status 0 having printed
\* only the usage text, the usage hint, or the unknown-command message that
\* names the argument.
C7_NoQueryCommands ==
    (NoArguments \/ SqlWithoutText \/ UnknownCommand) =>
        /\ file_opens = 0
        /\ requests = <<>>
        /\ pc \in {"main", "done"}
        /\ Done =>
            /\ termination = "returned"
            /\ exit_status = 0
            /\ NoArguments => out = UsageLines
            /\ SqlWithoutText =>
                  /\ Len(out) = 2
                  /\ out[1] = <<"Error: SQL query required">>
            /\ UnknownCommand =>
                  out = << <<"Unknown command: ">> \o argv[2],
                           <<"Run without arguments to see usage">> >>

C7_Witness ==
    /\ Done
    /\ SqlWithoutText
    /\ env_file = AbsentFile
    /\ Len(out) = 2
    /\ exit_status = 0
    /\ file_opens = 0

\* limit arguments that int() rejects
NotIntegers ==
    {<<>>, <<"a">>, <<"-">>, <<" ">>, <<"1", "a">>, <<"a", "1">>, <<"-", "-">>,
     <<"1", "-">>, <<"-", " ">>, <<"-", "a">>}

\* C8: the query command with a limit argument that is no integer ends
\* with an uncaught ValueError and exit status 1 before query_project is
\* called: nothing is printed, the credential file is not opened, no
\* request is issued.
C8_BadLimitUncaught ==
    (entry = "main" /\ Len(argv) > 3 /\ argv[2] = <<"query">>
        /\ (argv[4] \in NotIntegers \/ ~IntParses(argv[4]))) =>
        \/ pc = "main"
        \/ /\ Done
           /\ termination = "ValueError"
           /\ exit_status = 1
           /\ out = <<>>
           /\ file_opens = 0
           /\ requests = <<>>
           /\ call_args = NoCall

C8_Witness ==
    /\ Done
    /\ argv = <<Prog, CmdQuery, Svc, <<"1", "a">>>>
    /\ termination = "ValueError"
    /\ exit_status = 1
    /\ out = <<>>

\* the text the table rendering prints for a generated scalar
ScalarText(v) == IF v = JStr(<<"a">>) THEN <<"a">> ELSE <<"7">>

\* the lines of one well-formed column: an empty line, "<name>:", then each
\* value behind two spaces
RECURSIVE ExpectedColumnLines(_)
ExpectedColumnLines(cols) ==
    IF cols = <<>> THEN <<>>
    ELSE LET col == Head(cols)
             name == col.kv[1].v.s
             values == col.kv[2].v.xs
         IN  << <<>>, name \o <<":">> >>
             \o [i \in 1..Len(values) |-> <<"  ">> \o ScalarText(values[i])]
             \o ExpectedColumnLines(Tail(cols))

\* C9: for a 200 response with a list of well-formed columns, the table
\* rendering prints 'Results:', a delimiter line, then for each column in
\* list order its header line '<name>:' (after an empty line) followed by
\* one line '  <value>' per value in order, then the closing delimiter
\* line, and nothing else; run_query returns the decoded data unchanged.
C9_ColumnsInOrder ==
    Answered =>
        LET table == << <<"Results:">>, [i \in 1..80 |-> "-"] >>
                     \o ExpectedColumnLines(server.data.kv[1].v.xs)
                     \o << [i \in 1..80 |-> "-"] >>
        IN  /\ Len(out) >= Len(table)
            /\ LastLines(Len(table)) = table
            /\ \A i \in 1..(Len(out) - Len(table)) : out[i] # <<"Results:">>
            /\ result = ReturnData(server.data)

C9_Witness ==
    /\ Answered
    /\ server.data = Table(<<Column(JStr(<<"l", "v">>), <<JStr(<<"a">>), JInt(7)>>),
                             Column(JStr(<<"m">>), <<JInt(7)>>)>>)
    /\ LastLines(10) =
          << <<"Results:">>, Rule,
             <<>>, <<"l", "v", ":">>, <<"  ", "a">>, <<"  ", "7">>,
             <<>>, <<"m", ":">>, <<"  ", "7">>,
             Rule >>
    /\ result = ReturnData(server.data)

\* query_project has been called and has built its SQL
QueryProjectCalled ==
    \/ entry = "query_project" /\ pc # "query_project"
    \/ /\ entry = "main" /\ Len(argv) >= 2 /\ argv[2] = <<"query">>
       /\ pc \notin {"main", "query_project"}
       /\ termination # "ValueError"

\* the service and the limit digits the SQL must show
ExpectedService ==
    IF entry = "query_project"
    THEN (IF call_args.project = <<>>
          THEN <<"v", "i", "b", "e", "m", "a", "c", "h", "i", "n", "e">>
          ELSE call_args.project[1])
    ELSE (IF Len(argv) > 2 THEN argv[3]
          ELSE <<"v", "i", "b", "e", "m", "a", "c", "h", "i", "n", "e">>)

\* a limit argument written the way str() writes the integer it denotes
Canonical(a) ==
    /\ a # <<>>
    /\ \A i \in 1..Len(a) : a[i] \in {"0", "1"} \/ (i = 1 /\ a[i] = "-")
    /\ a # <<"-">>
    /\ Len(a) > 1 => a[1] # "0"
    /\ ~(a[1] = "-" /\ a[2] = "0")

ExpectedLimit ==
    IF entry = "query_project"
    THEN (IF call_args.limit = <<>> THEN <<"5">>
          ELSE IF call_args.limit[1] = 10 THEN <<"1", "0">> ELSE <<"-", "1">>)
    ELSE (IF Len(argv) <= 3 THEN <<"5">>
          ELSE IF Canonical(argv[4]) THEN argv[4]
          ELSE Dec(IntValue(argv[4])))

\* C10: query_project passes to run_query, with the table rendering, an SQL
\* text that contains service_name = '<s>' with s verbatim and LIMIT <n>;
\* an omitted project is vibemachine and an omitted limit is 5, both in a
\* direct call and in the query command.
C10_SqlOfQueryProject ==
    QueryProjectCalled =>
        /\ Contains(sql_query, <<"service_name = '">> \o ExpectedService \o <<"'">>)
        /\ Contains(sql_query, <<"LIMIT ">> \o ExpectedLimit \o <<"\n">>)
        /\ show_full = FALSE

C10_Witness ==
    /\ entry = "main"
    /\ argv = <<Prog, CmdQuery, Quoted>>
    /\ pc = "run_query"
    /\ Contains(sql_query, <<"service_name = '", "x", "'", "y", "'">>)
    /\ Contains(sql_query, <<"LIMIT ", "5", "\n">>)

====
